---- MODULE Spec2Model ----
(***************************************************************************)
(* TelegramBingo server: the join route, the WebSocket room registry, the  *)
(* mark_number (win settlement) handler and the number-calling interval of *)
(* server/routes.ts (src/unnamed/part_006), over the storage layer of      *)
(* src/server/storage.ts.                                                  *)
(*                                                                         *)
(* Every handler is an async function.  One action of the model is one     *)
(* run of a handler between two awaits: the code that follows the          *)
(* previous await, up to and including the next storage call, whose        *)
(* effect on the database and whose returned rows are taken at that        *)
(* moment.  Handlers interleave at every await.  A storage call may        *)
(* reject (the database is an I/O boundary); the rejection lands in the    *)
(* handler's catch block.                                                  *)
(*                                                                         *)
(* Money is counted in whole units: the balance, entry fee and prize pool  *)
(* columns are decimal strings that the code parses with parseFloat, adds  *)
(* or subtracts, and writes back with toString; on the two-decimal values  *)
(* the tables hold this arithmetic is exact, so integers model it.         *)
(***************************************************************************)
EXTENDS Integers, Sequences, FiniteSets, TLC

(* ------------------------------ bounds -------------------------------- *)
NumUsers == 3     \* rows of the users table
NumGames == 2     \* rows of the games table
NumWs == 2        \* WebSocket connections
MaxReqs == 2      \* requests, messages, disconnects and timer firings in one run
MaxFaults == 1    \* storage calls that reject in one run
TopNumber == 2    \* the numbers the caller draws from: 1..TopNumber of 1..75
InitBalance == 3  \* every user's balance before any join
RandomSteps == 16 \* Math.random() returns a multiple of 1 / RandomSteps

(* --------------------------- program constants ------------------------ *)
MinPlayers == 2

Users == 1..NumUsers
Games == 1..NumGames
WS == 1..NumWs
JoinReqs == 1..MaxReqs
MarkReqs == 1..MaxReqs
Ticks == 1..MaxReqs
VerifyReqs == 1..MaxReqs

(* Request inputs: one id beyond the rows that exist. *)
UserIds == 1..(NumUsers + 1)
GameIds == 1..(NumGames + 1)

(* Games as created by POST /api/games: entry fee and capacity are set at  *)
(* creation and never change.                                              *)
EntryFee(g) == g
MaxPlayers(g) == 2

(* ------------------------------ cards --------------------------------- *)
CardA ==
  << <<1, 16, 31, 46, 61>>,
     <<2, 17, 32, 47, 62>>,
     <<3, 18, 0, 48, 63>>,
     <<4, 19, 34, 49, 64>>,
     <<5, 20, 35, 50, 65>> >>

CardB ==
  << <<15, 30, 45, 60, 75>>,
     <<14, 29, 44, 59, 74>>,
     <<13, 28, 0, 58, 73>>,
     <<12, 27, 42, 57, 72>>,
     <<11, 26, 41, 56, 71>> >>

(* Cards generateBingoCard can return, by name. *)
CardNames == {"A", "B"}
CardOf(c) == IF c = "A" THEN CardA ELSE CardB

(* Mark sets a client may submit: the top row of each card. *)
MarkChoices == { {1, 16, 31, 46, 61}, {15, 30, 45, 60, 75} }

(* The same with a free cell that has to be marked like any other. *)
checkWinConditionNoFree(card, markedNumbers) ==
  LET isMarked(num) == num \in markedNumbers
  IN  \/ \E row \in 1..5 : \A col \in 1..5 : isMarked(card[row][col])
      \/ \E col \in 1..5 : \A row \in 1..5 : isMarked(card[row][col])
      \/ \A i \in 1..5 : isMarked(card[i][i])
      \/ \A i \in 1..5 : isMarked(card[i][6 - i])

checkWinCondition(card, markedNumbers) ==
  LET isMarked(num) == num = 0 \/ num \in markedNumbers
  IN  \/ \E row \in 1..5 : \A col \in 1..5 : isMarked(card[row][col])
      \/ \E col \in 1..5 : \A row \in 1..5 : isMarked(card[row][col])
      \/ \A i \in 1..5 : isMarked(card[i][i])
      \/ \A i \in 1..5 : isMarked(card[i][6 - i])

(* ------------------------------ state --------------------------------- *)
VARIABLES
  balance,      \* users.balance, by user id
  status,       \* games.status: "waiting" | "active" | "completed"
  prizePool,    \* games.prizePool
  winnerId,     \* games.winnerId (0: null)
  calledNumbers,\* games.calledNumbers
  currentNumber,\* games.currentNumber (NoNumber: null)
  participants, \* gameParticipants rows, in insertion (id) order
  ledger,       \* transactions rows, in insertion (id) order
  roomOrder,    \* gameRooms: its keys in Map insertion order
  roomPlayers,  \* gameRooms: room.players of each key
  wsState,      \* each connection: "open" | "closing" | "closed"
  wsGame,       \* each connection's currentGameId (0: null)
  inbox,        \* what ws.send has delivered to each connection
  join,         \* the POST /api/games/:id/join requests
  mark,         \* the mark_number message handlers
  tick,         \* the setInterval callbacks
  reqs,         \* requests, messages, disconnects and timer firings so far
  faults,       \* storage calls that have rejected
  gen,          \* a call of generateBingoCard: its locals and Math.random
  verify        \* the POST /api/admin/verify-payment requests

vars == <<balance, status, prizePool, winnerId, calledNumbers, currentNumber,
          participants, ledger, roomOrder, roomPlayers, wsState, wsGame, inbox,
          join, mark, tick, reqs, faults, gen, verify>>

durable == <<balance, status, prizePool, winnerId, calledNumbers, currentNumber,
             participants, ledger>>
gameVars == <<status, prizePool, winnerId, calledNumbers, currentNumber>>
wsVars == <<roomOrder, roomPlayers, wsState, wsGame>>

NoNumber == [letter |-> "", n |-> 0]

JoinIdle ==
  [pc |-> "idle", userId |-> 0, gameId |-> 0, found |-> FALSE, status |-> "",
   pool |-> 0, count |-> 0, existing |-> FALSE, userFound |-> FALSE, bal |-> 0,
   res |-> ""]

MarkIdle ==
  [pc |-> "idle", ws |-> 0, participantId |-> 0, markedNumbers |-> {},
   player |-> FALSE, userId |-> 0, card |-> "", gameId |-> 0, pool |-> 0,
   userFound |-> FALSE, bal |-> 0, res |-> "", late |-> FALSE]

TickIdle ==
  [pc |-> "idle", pos |-> 0, gameId |-> 0, found |-> FALSE, status |-> "",
   called |-> <<>>, next |-> NoNumber, stale |-> FALSE]

VerifyIdle ==
  [pc |-> "idle", paymentCode |-> "", transactionId |-> 0, found |-> FALSE,
   userId |-> 0, amount |-> 0, res |-> ""]

(* ------------------------------ storage ------------------------------- *)
(* Each operator is the new value of the column or table the call writes.  *)
(* An UPDATE whose WHERE matches no row changes nothing.                   *)

updateUserBalance(userId, amount) ==
  IF userId \in DOMAIN balance THEN [balance EXCEPT ![userId] = amount] ELSE balance

updateGameStatus(gameId, s) ==
  IF gameId \in DOMAIN status THEN [status EXCEPT ![gameId] = s] ELSE status

updateGamePrizePool(gameId, pool) ==
  IF gameId \in DOMAIN prizePool THEN [prizePool EXCEPT ![gameId] = pool] ELSE prizePool

joinGame(gameId, userId, bingoCard) ==
  Append(participants,
         [id |-> Len(participants) + 1, gameId |-> gameId, userId |-> userId,
          bingoCard |-> bingoCard, markedNumbers |-> {}])

getGameParticipants(gameId) ==
  SelectSeq(participants, LAMBDA p : p.gameId = gameId)

(* The same with the submitted numbers added to the stored ones. *)
updateParticipantMarkedNumbersMerge(participantId, markedNumbers) ==
  [i \in DOMAIN participants |->
     IF participants[i].id = participantId
     THEN [participants[i] EXCEPT !.markedNumbers = @ \cup markedNumbers]
     ELSE participants[i]]

updateParticipantMarkedNumbers(participantId, markedNumbers) ==
  [i \in DOMAIN participants |->
     IF participants[i].id = participantId
     THEN [participants[i] EXCEPT !.markedNumbers = markedNumbers]
     ELSE participants[i]]

createTransaction(userId, type, amount, gameId) ==
  Append(ledger,
         [userId |-> userId, type |-> type, amount |-> amount,
          status |-> "completed", gameId |-> gameId, paymentCode |-> ""])

(* setGameWinner writes the winner and the status together, whatever the   *)
(* row's status was.                                                       *)
setGameWinnerStatus(gameId) ==
  IF gameId \in DOMAIN status THEN [status EXCEPT ![gameId] = "completed"] ELSE status

setGameWinnerId(gameId, userId) ==
  IF gameId \in DOMAIN winnerId THEN [winnerId EXCEPT ![gameId] = userId] ELSE winnerId

updateGameCalledNumbers(gameId, called) ==
  IF gameId \in DOMAIN calledNumbers
  THEN [calledNumbers EXCEPT ![gameId] = called] ELSE calledNumbers

updateGameCurrentNumber(gameId, number) ==
  IF gameId \in DOMAIN currentNumber
  THEN [currentNumber EXCEPT ![gameId] = number] ELSE currentNumber

(* The same without the readyState test. *)
broadcastToRoomAll(players, message) ==
  [w \in WS |-> IF w \in players THEN Append(inbox[w], message) ELSE inbox[w]]

(* ------------------------------ broadcast ----------------------------- *)
broadcastToRoom(players, message) ==
  [w \in WS |->
     IF w \in players /\ wsState[w] = "open" THEN Append(inbox[w], message)
     ELSE inbox[w]]

HasRoom(g) == \E i \in DOMAIN roomOrder : roomOrder[i] = g

(* A storage call of a handler may reject instead of taking effect. *)
CanFault == faults < MaxFaults

(* One more request, message, disconnect or timer firing may arrive. *)
CanArrive == reqs < MaxReqs

(* ------------------- POST /api/games/:id/join ------------------------- *)
JoinDone(r, res) ==
  [JoinIdle EXCEPT !.pc = "done", !.userId = join[r].userId,
                   !.gameId = join[r].gameId, !.count = join[r].count, !.res = res]

JoinGameOk(r) == join[r].found /\ join[r].status = "waiting"
JoinPartsOk(r) == join[r].count < MaxPlayers(join[r].gameId) /\ ~join[r].existing
JoinUserOk(r) == join[r].userFound /\ join[r].bal >= EntryFee(join[r].gameId)

(* The request arrives; storage.getGame. *)
JoinBegin(r, u, g) ==
  /\ CanArrive
  /\ join[r].pc = "idle"
  /\ \A q \in JoinReqs : q < r => join[q].pc # "idle"
  /\ reqs' = reqs + 1
  /\ join' = [join EXCEPT ![r] =
       [JoinIdle EXCEPT !.pc = "checkGame", !.userId = u, !.gameId = g,
                        !.found = g \in Games,
                        !.status = IF g \in Games THEN status[g] ELSE "",
                        !.pool = IF g \in Games THEN prizePool[g] ELSE 0]]
  /\ UNCHANGED <<gen, verify, durable, wsVars, inbox, mark, tick, faults>>

(* 404 / 400 on the game row, else storage.getGameParticipants. *)
JoinCheckGame(r) ==
  /\ join[r].pc = "checkGame"
  /\ join' = [join EXCEPT ![r] =
       IF ~join[r].found THEN JoinDone(r, "NotFound")
       ELSE IF join[r].status # "waiting" THEN JoinDone(r, "InvalidState")
       ELSE LET rows == getGameParticipants(join[r].gameId)
            IN  [join[r] EXCEPT !.pc = "checkParts", !.count = Len(rows),
                   !.existing = \E i \in DOMAIN rows : rows[i].userId = join[r].userId]]
  /\ UNCHANGED <<gen, verify, durable, wsVars, inbox, mark, tick, reqs, faults>>

(* 400 when full or already joined, else storage.getUser. *)
JoinCheckParts(r) ==
  /\ join[r].pc = "checkParts"
  /\ join' = [join EXCEPT ![r] =
       IF join[r].count >= MaxPlayers(join[r].gameId) THEN JoinDone(r, "Full")
       ELSE IF join[r].existing THEN JoinDone(r, "AlreadyJoined")
       ELSE [join[r] EXCEPT !.pc = "checkUser",
               !.userFound = join[r].userId \in Users,
               !.bal = IF join[r].userId \in Users THEN balance[join[r].userId] ELSE 0]]
  /\ UNCHANGED <<gen, verify, durable, wsVars, inbox, mark, tick, reqs, faults>>

(* The debit made before the balance test. *)
JoinCheckUserDebitFirst(r) ==
  /\ join[r].pc = "checkUser"
  /\ balance' = updateUserBalance(join[r].userId, join[r].bal - EntryFee(join[r].gameId))
  /\ join' = [join EXCEPT ![r] = IF JoinUserOk(r) THEN [join[r] EXCEPT !.pc = "debited"]
                                 ELSE JoinDone(r, "InsufficientFunds")]
  /\ UNCHANGED <<gen, verify, gameVars, participants, ledger, wsVars, inbox, mark, tick, reqs, faults>>

(* 400 on insufficient balance, else storage.updateUserBalance with the    *)
(* balance computed from the row read before.                              *)
JoinCheckUser(r) ==
  /\ join[r].pc = "checkUser"
  /\ IF JoinUserOk(r)
     THEN /\ balance' = updateUserBalance(join[r].userId,
                                          join[r].bal - EntryFee(join[r].gameId))
          /\ join' = [join EXCEPT ![r].pc = "debited"]
     ELSE /\ join' = [join EXCEPT ![r] = JoinDone(r, "InsufficientFunds")]
          /\ UNCHANGED balance
  /\ UNCHANGED <<gen, verify, gameVars, participants, ledger, wsVars, inbox, mark, tick, reqs, faults>>

(* storage.createTransaction: the game_entry row. *)
JoinCreateTx(r) ==
  /\ join[r].pc = "debited"
  /\ ledger' = createTransaction(join[r].userId, "game_entry",
                                 0 - EntryFee(join[r].gameId), join[r].gameId)
  /\ join' = [join EXCEPT ![r].pc = "recorded"]
  /\ UNCHANGED <<gen, verify, balance, gameVars, participants, wsVars, inbox, mark, tick, reqs, faults>>

(* generateBingoCard, then storage.joinGame. *)
JoinInsert(r) ==
  /\ join[r].pc = "recorded"
  /\ \E c \in CardNames :
       participants' = joinGame(join[r].gameId, join[r].userId, c)
  /\ join' = [join EXCEPT ![r].pc = "joined"]
  /\ UNCHANGED <<gen, verify, balance, gameVars, ledger, wsVars, inbox, mark, tick, reqs, faults>>

(* storage.updateGamePrizePool with the pool of the row read at the start. *)
JoinUpdatePool(r) ==
  /\ join[r].pc = "joined"
  /\ prizePool' = updateGamePrizePool(join[r].gameId,
                                      join[r].pool + EntryFee(join[r].gameId))
  /\ join' = [join EXCEPT ![r].pc = "pooled"]
  /\ UNCHANGED <<gen, verify, balance, status, winnerId, calledNumbers, currentNumber,
                 participants, ledger, wsVars, inbox, mark, tick, reqs, faults>>

(* storage.getGameParticipants again. *)
JoinRecount(r) ==
  /\ join[r].pc = "pooled"
  /\ join' = [join EXCEPT ![r].pc = "counted",
                          ![r].count = Len(getGameParticipants(join[r].gameId))]
  /\ UNCHANGED <<gen, verify, durable, wsVars, inbox, mark, tick, reqs, faults>>

(* The threshold test with the comparison made strict. *)
JoinMaybeStartStrict(r) ==
  /\ join[r].pc = "counted"
  /\ IF join[r].count > MinPlayers
     THEN /\ status' = updateGameStatus(join[r].gameId, "active")
          /\ join' = [join EXCEPT ![r].pc = "activated"]
     ELSE /\ join' = [join EXCEPT ![r] = JoinDone(r, "ok")]
          /\ UNCHANGED status
  /\ UNCHANGED <<gen, verify, balance, prizePool, winnerId, calledNumbers, currentNumber,
                 participants, ledger, wsVars, inbox, mark, tick, reqs, faults>>

(* With enough players storage.updateGameStatus('active'); else respond. *)
JoinMaybeStart(r) ==
  /\ join[r].pc = "counted"
  /\ IF join[r].count >= MinPlayers
     THEN /\ status' = updateGameStatus(join[r].gameId, "active")
          /\ join' = [join EXCEPT ![r].pc = "activated"]
     ELSE /\ join' = [join EXCEPT ![r] = JoinDone(r, "ok")]
          /\ UNCHANGED status
  /\ UNCHANGED <<gen, verify, balance, prizePool, winnerId, calledNumbers, currentNumber,
                 participants, ledger, wsVars, inbox, mark, tick, reqs, faults>>

(* gameRooms.get and the game_started broadcast; respond. *)
JoinBroadcastStart(r) ==
  /\ join[r].pc = "activated"
  /\ inbox' = IF HasRoom(join[r].gameId)
              THEN broadcastToRoom(roomPlayers[join[r].gameId],
                                   [type |-> "game_started", gameId |-> join[r].gameId])
              ELSE inbox
  /\ join' = [join EXCEPT ![r] = JoinDone(r, "ok")]
  /\ UNCHANGED <<gen, verify, durable, wsVars, mark, tick, reqs, faults>>

(* The storage call of the next step rejects: the catch block answers 500. *)
JoinAwaitsStorage(r) ==
  \/ join[r].pc = "checkGame" /\ JoinGameOk(r)
  \/ join[r].pc = "checkParts" /\ JoinPartsOk(r)
  \/ join[r].pc = "checkUser" /\ JoinUserOk(r)
  \/ join[r].pc \in {"debited", "recorded", "joined", "pooled"}
  \/ join[r].pc = "counted" /\ join[r].count >= MinPlayers

JoinFail(r) ==
  /\ CanFault
  /\ JoinAwaitsStorage(r)
  /\ faults' = faults + 1
  /\ join' = [join EXCEPT ![r] = JoinDone(r, "StorageError")]
  /\ UNCHANGED <<gen, verify, durable, wsVars, inbox, mark, tick, reqs>>

(* ------------------------- WebSocket registry ------------------------- *)
RoomIndex(g) == CHOOSE i \in DOMAIN roomOrder : roomOrder[i] = g

RemoveAt(seq, i) == SubSeq(seq, 1, i - 1) \o SubSeq(seq, i + 1, Len(seq))

(* message {type: 'join_room', gameId}: a handler without an await. *)
WsJoinRoom(w, g) ==
  /\ CanArrive
  /\ wsState[w] = "open"
  /\ reqs' = reqs + 1
  /\ wsGame' = [wsGame EXCEPT ![w] = g]
  /\ roomOrder' = IF HasRoom(g) THEN roomOrder ELSE Append(roomOrder, g)
  /\ LET players == (IF HasRoom(g) THEN roomPlayers[g] ELSE {}) \cup {w}
     IN  /\ roomPlayers' = [roomPlayers EXCEPT ![g] = players]
         /\ inbox' = broadcastToRoom(players,
                        [type |-> "player_joined", gameId |-> g,
                         playerCount |-> Cardinality(players)])
  /\ UNCHANGED <<gen, verify, durable, wsState, join, mark, tick, faults>>

(* The socket leaves the OPEN state; its 'close' event is yet to be emitted. *)
WsDisconnect(w) ==
  /\ CanArrive
  /\ wsState[w] = "open"
  /\ reqs' = reqs + 1
  /\ wsState' = [wsState EXCEPT ![w] = "closing"]
  /\ UNCHANGED <<gen, verify, durable, roomOrder, roomPlayers, wsGame, inbox, join, mark, tick, faults>>

(* ws.on('close'): leaves the room of currentGameId, and deletes the room  *)
(* when it is left empty.  An iteration of the interval callback that      *)
(* holds the deleted room keeps the object, which no connection is in.     *)
WsOnClose(w) ==
  /\ wsState[w] = "closing"
  /\ wsState' = [wsState EXCEPT ![w] = "closed"]
  /\ LET g == wsGame[w]
     IN  IF g # 0 /\ HasRoom(g)
         THEN LET players == roomPlayers[g] \ {w}
                  i == RoomIndex(g)
              IN  IF players = {}
                  THEN /\ roomPlayers' = [roomPlayers EXCEPT ![g] = {}]
                       /\ roomOrder' = RemoveAt(roomOrder, i)
                       /\ tick' = [t \in Ticks |->
                            [tick[t] EXCEPT
                               !.pos = IF i <= @ THEN @ - 1 ELSE @,
                               !.stale = @ \/ (tick[t].gameId = g
                                               /\ tick[t].pc \in {"gotGame", "updated"})]]
                  ELSE /\ roomPlayers' = [roomPlayers EXCEPT ![g] = players]
                       /\ UNCHANGED <<roomOrder, tick>>
         ELSE UNCHANGED <<roomOrder, roomPlayers, tick>>
  /\ UNCHANGED <<gen, verify, durable, wsGame, inbox, join, mark, reqs, faults>>

(* ------------------- message {type: 'mark_number'} -------------------- *)
MarkDone(m, res) ==
  [MarkIdle EXCEPT !.pc = "done", !.ws = mark[m].ws,
                   !.participantId = mark[m].participantId,
                   !.markedNumbers = mark[m].markedNumbers,
                   !.userId = mark[m].userId, !.gameId = mark[m].gameId,
                   !.pool = mark[m].pool, !.late = mark[m].late, !.res = res]

(* The closure variable currentGameId of the handler's connection, read    *)
(* anew at every use.                                                      *)
currentGameId(m) == wsGame[mark[m].ws]

(* The message arrives; with a currentGameId,                              *)
(* storage.updateParticipantMarkedNumbers.  The field late records, for    *)
(* the properties only, that on arrival the game was already completed and *)
(* no other mark_number handler was running.                               *)
MarkBegin(m, w, pid, marks) ==
  /\ CanArrive
  /\ wsState[w] = "open"
  /\ mark[m].pc = "idle"
  /\ \A q \in MarkReqs : q < m => mark[q].pc # "idle"
  /\ reqs' = reqs + 1
  /\ IF wsGame[w] # 0
     THEN /\ participants' = updateParticipantMarkedNumbers(pid, marks)
          /\ mark' = [mark EXCEPT ![m] =
               [MarkIdle EXCEPT !.pc = "marked", !.ws = w, !.participantId = pid,
                                !.markedNumbers = marks,
                                !.late = (status[wsGame[w]] = "completed"
                                          /\ \A q \in MarkReqs : mark[q].pc \in {"idle", "done"})]]
     ELSE /\ mark' = [mark EXCEPT ![m] =
               [MarkIdle EXCEPT !.pc = "done", !.ws = w, !.participantId = pid,
                                !.markedNumbers = marks, !.res = "ignored"]]
          /\ UNCHANGED participants
  /\ UNCHANGED <<gen, verify, balance, gameVars, ledger, wsVars, inbox, join, tick, faults>>

(* storage.getGameParticipants(currentGameId) and the find by id. *)
MarkGetParticipants(m) ==
  /\ mark[m].pc = "marked"
  /\ LET rows == getGameParticipants(currentGameId(m))
         hit == {i \in DOMAIN rows : rows[i].id = mark[m].participantId}
     IN  mark' = [mark EXCEPT ![m] =
           IF hit = {} THEN [mark[m] EXCEPT !.pc = "gotParticipants", !.player = FALSE]
           ELSE LET p == rows[CHOOSE i \in hit : TRUE]
                IN  [mark[m] EXCEPT !.pc = "gotParticipants", !.player = TRUE,
                                    !.userId = p.userId, !.card = p.bingoCard]]
  /\ UNCHANGED <<gen, verify, durable, wsVars, inbox, join, tick, reqs, faults>>

MarkWins(m) ==
  mark[m].player /\ checkWinCondition(CardOf(mark[m].card), mark[m].markedNumbers)

(* On a win storage.setGameWinner, which returns the updated game row. *)
MarkCheckWin(m) ==
  /\ mark[m].pc = "gotParticipants"
  /\ IF MarkWins(m)
     THEN LET g == currentGameId(m)
          IN  /\ status' = setGameWinnerStatus(g)
              /\ winnerId' = setGameWinnerId(g, mark[m].userId)
              /\ mark' = [mark EXCEPT ![m].pc = "won", ![m].gameId = g,
                                      ![m].pool = prizePool[g]]
     ELSE /\ mark' = [mark EXCEPT ![m] =
               MarkDone(m, IF mark[m].player THEN "noWin" ELSE "NotFound")]
          /\ UNCHANGED <<status, winnerId>>
  /\ UNCHANGED <<gen, verify, balance, prizePool, calledNumbers, currentNumber, participants,
                 ledger, wsVars, inbox, join, tick, reqs, faults>>

(* storage.getUser(player.userId). *)
MarkGetUser(m) ==
  /\ mark[m].pc = "won"
  /\ mark' = [mark EXCEPT ![m].pc = "gotUser",
                          ![m].userFound = mark[m].userId \in Users,
                          ![m].bal = IF mark[m].userId \in Users
                                     THEN balance[mark[m].userId] ELSE 0]
  /\ UNCHANGED <<gen, verify, durable, wsVars, inbox, join, tick, reqs, faults>>

GameWon(m) ==
  [type |-> "game_won", gameId |-> currentGameId(m), winnerId |-> mark[m].userId,
   prizeAmount |-> mark[m].pool]

(* gameRooms.get(currentGameId) and the game_won broadcast. *)
MarkAnnounce(m) ==
  IF HasRoom(currentGameId(m))
  THEN broadcastToRoom(roomPlayers[currentGameId(m)], GameWon(m))
  ELSE inbox

(* With a user row storage.updateUserBalance with the balance computed     *)
(* from that row; without one the broadcast follows at once.               *)
MarkCredit(m) ==
  /\ mark[m].pc = "gotUser"
  /\ IF mark[m].userFound
     THEN /\ balance' = updateUserBalance(mark[m].userId, mark[m].bal + mark[m].pool)
          /\ mark' = [mark EXCEPT ![m].pc = "credited"]
          /\ UNCHANGED inbox
     ELSE /\ inbox' = MarkAnnounce(m)
          /\ mark' = [mark EXCEPT ![m] = MarkDone(m, "won")]
          /\ UNCHANGED balance
  /\ UNCHANGED <<gen, verify, gameVars, participants, ledger, wsVars, join, tick, reqs, faults>>

(* storage.createTransaction: the game_win row. *)
MarkCreateTx(m) ==
  /\ mark[m].pc = "credited"
  /\ ledger' = createTransaction(mark[m].userId, "game_win", mark[m].pool,
                                 currentGameId(m))
  /\ mark' = [mark EXCEPT ![m].pc = "recorded"]
  /\ UNCHANGED <<gen, verify, balance, gameVars, participants, wsVars, inbox, join, tick, reqs, faults>>

MarkBroadcast(m) ==
  /\ mark[m].pc = "recorded"
  /\ inbox' = MarkAnnounce(m)
  /\ mark' = [mark EXCEPT ![m] = MarkDone(m, "won")]
  /\ UNCHANGED <<gen, verify, durable, wsVars, join, tick, reqs, faults>>

(* The storage call of the next step rejects: the catch block logs it. *)
MarkAwaitsStorage(m) ==
  \/ mark[m].pc \in {"marked", "won", "credited"}
  \/ mark[m].pc = "gotParticipants" /\ MarkWins(m)
  \/ mark[m].pc = "gotUser" /\ mark[m].userFound

MarkFail(m) ==
  /\ CanFault
  /\ MarkAwaitsStorage(m)
  /\ faults' = faults + 1
  /\ mark' = [mark EXCEPT ![m] = MarkDone(m, "StorageError")]
  /\ UNCHANGED <<gen, verify, durable, wsVars, inbox, join, tick, reqs>>

(* ----------------- setInterval: the number-calling callback ----------- *)
Letter(i) ==
  IF i <= 15 THEN "B" ELSE IF i <= 30 THEN "I" ELSE IF i <= 45 THEN "N"
  ELSE IF i <= 60 THEN "G" ELSE "O"

(* The string `${letter}${i}`. *)
NumberStr(i) == [letter |-> Letter(i), n |-> i]

Includes(seq, x) == \E k \in DOMAIN seq : seq[k] = x

availableNumbers(called) ==
  {NumberStr(i) : i \in {k \in 1..TopNumber : ~Includes(called, NumberStr(k))}}

(* The timer fires, whether or not an earlier callback is still running. *)
TickFire(t) ==
  /\ CanArrive
  /\ tick[t].pc = "idle"
  /\ \A q \in Ticks : q < t => tick[q].pc # "idle"
  /\ reqs' = reqs + 1
  /\ tick' = [tick EXCEPT ![t].pc = "loop"]
  /\ UNCHANGED <<gen, verify, durable, wsVars, inbox, join, mark, faults>>

(* The next entry of gameRooms, in insertion order; storage.getGame. *)
TickNext(t) ==
  /\ tick[t].pc = "loop"
  /\ IF tick[t].pos < Len(roomOrder)
     THEN LET g == roomOrder[tick[t].pos + 1]
          IN  tick' = [tick EXCEPT ![t] =
                [TickIdle EXCEPT !.pc = "gotGame", !.pos = tick[t].pos + 1,
                                 !.gameId = g, !.found = g \in Games,
                                 !.status = IF g \in Games THEN status[g] ELSE "",
                                 !.called = IF g \in Games THEN calledNumbers[g]
                                            ELSE <<>>]]
     ELSE tick' = [tick EXCEPT ![t] = [TickIdle EXCEPT !.pc = "done"]]
  /\ UNCHANGED <<gen, verify, durable, wsVars, inbox, join, mark, reqs, faults>>

TickCalls(t) ==
  tick[t].found /\ tick[t].status = "active" /\ availableNumbers(tick[t].called) # {}

(* For an active game with numbers left: one of them, at random, and       *)
(* storage.updateGameCurrentNumber with the list read before plus it.      *)
TickCall(t) ==
  /\ tick[t].pc = "gotGame"
  /\ IF TickCalls(t)
     THEN \E nextNumber \in availableNumbers(tick[t].called) :
            LET newCalledNumbers == Append(tick[t].called, nextNumber)
            IN  /\ currentNumber' = updateGameCurrentNumber(tick[t].gameId, nextNumber)
                /\ calledNumbers' = updateGameCalledNumbers(tick[t].gameId,
                                                            newCalledNumbers)
                /\ tick' = [tick EXCEPT ![t].pc = "updated", ![t].next = nextNumber,
                                        ![t].called = newCalledNumbers]
     ELSE /\ tick' = [tick EXCEPT ![t] =
               [TickIdle EXCEPT !.pc = "loop", !.pos = tick[t].pos]]
          /\ UNCHANGED <<currentNumber, calledNumbers>>
  /\ UNCHANGED <<gen, verify, balance, status, prizePool, winnerId, participants, ledger,
                 wsVars, inbox, join, mark, reqs, faults>>

(* The number_called broadcast to the room the iteration holds. *)
TickBroadcast(t) ==
  /\ tick[t].pc = "updated"
  /\ inbox' = broadcastToRoom(IF tick[t].stale THEN {} ELSE roomPlayers[tick[t].gameId],
                              [type |-> "number_called", gameId |-> tick[t].gameId,
                               number |-> tick[t].next,
                               calledNumbers |-> tick[t].called])
  /\ tick' = [tick EXCEPT ![t] = [TickIdle EXCEPT !.pc = "loop", !.pos = tick[t].pos]]
  /\ UNCHANGED <<gen, verify, durable, wsVars, join, mark, reqs, faults>>

(* A storage call of the callback rejects: the callback has no catch       *)
(* block, its promise rejects and the rest of the round is not run.        *)
TickAwaitsStorage(t) ==
  \/ tick[t].pc = "loop" /\ tick[t].pos < Len(roomOrder)
  \/ tick[t].pc = "gotGame" /\ TickCalls(t)

TickFail(t) ==
  /\ CanFault
  /\ TickAwaitsStorage(t)
  /\ faults' = faults + 1
  /\ tick' = [tick EXCEPT ![t] = [TickIdle EXCEPT !.pc = "failed"]]
  /\ UNCHANGED <<gen, verify, durable, wsVars, inbox, join, mark, reqs>>

(* ------------------------- generateBingoCard -------------------------- *)
(* Math.random() returns gen.x / RandomSteps; the values of successive     *)
(* calls are an input: from any first value they advance by any stride     *)
(* that visits every multiple of 1 / RandomSteps.                          *)
Coprime(c, n) == \A d \in 2..n : ~(c % d = 0 /\ n % d = 0)
RandomStrides == {c \in 1..(RandomSteps - 1) : Coprime(c, RandomSteps)}

(* ranges[col].min and ranges[col].max *)
rangeMin(col) == 15 * col + 1
rangeMax(col) == 15 * col + 15

(* card[row][col] before the column is transposed in: no value. *)
NoCell == 0 - 1
EmptyCard == [row \in 0..4 |-> [col \in 0..4 |-> NoCell]]

GenIdle ==
  [pc |-> "idle", col |-> 0, row |-> 0, column |-> <<>>, usedNumbers |-> {},
   card |-> EmptyCard, x |-> 0, stride |-> 0, resampled |-> FALSE]

(* Math.floor(Math.random() * (range.max - range.min + 1)) + range.min *)
randomNumber(col) ==
  ((gen.x * (rangeMax(col) - rangeMin(col) + 1)) \div RandomSteps) + rangeMin(col)

(* column.push(v) and the row++ of the inner loop. *)
GenPush(g, v) ==
  [g EXCEPT !.column = Append(g.column, v), !.row = g.row + 1,
            !.pc = IF g.row + 1 < 5 THEN "row" ELSE "transpose"]

(* One pass of the inner for: the free space, or into the do-while. *)
GenRow ==
  /\ gen.pc = "row"
  /\ gen' = IF gen.col = 2 /\ gen.row = 2 THEN GenPush(gen, 0)
            ELSE [gen EXCEPT !.pc = "draw"]
  /\ UNCHANGED <<durable, wsVars, inbox, join, mark, tick, verify, reqs, faults>>

(* The draw taken as it comes, without the test against usedNumbers. *)
GenDrawOnce ==
  /\ gen.pc = "draw"
  /\ gen' = GenPush([gen EXCEPT !.x = (gen.x + gen.stride) % RandomSteps,
                                !.usedNumbers = @ \cup {randomNumber(gen.col)}],
                    randomNumber(gen.col))
  /\ UNCHANGED <<durable, wsVars, inbox, join, mark, tick, verify, reqs, faults>>

(* One pass of the do-while: a number is drawn, and is drawn again while   *)
(* usedNumbers has it.                                                     *)
GenDraw ==
  /\ gen.pc = "draw"
  /\ LET number == randomNumber(gen.col)
         drawn == [gen EXCEPT !.x = (gen.x + gen.stride) % RandomSteps]
     IN  gen' = IF number \in gen.usedNumbers
                THEN [drawn EXCEPT !.resampled = TRUE]
                ELSE GenPush([drawn EXCEPT !.usedNumbers = @ \cup {number}], number)
  /\ UNCHANGED <<durable, wsVars, inbox, join, mark, tick, verify, reqs, faults>>

(* The column goes into the rows; the next column, or return card. *)
GenTranspose ==
  /\ gen.pc = "transpose"
  /\ gen' = [gen EXCEPT
       !.card = [row \in 0..4 |-> [gen.card[row] EXCEPT ![gen.col] = gen.column[row + 1]]],
       !.col = gen.col + 1, !.row = 0, !.column = <<>>, !.usedNumbers = {},
       !.pc = IF gen.col + 1 < 5 THEN "row" ELSE "done"]
  /\ UNCHANGED <<durable, wsVars, inbox, join, mark, tick, verify, reqs, faults>>

(* ------------------------------ initial states ------------------------ *)
(* The server starts with its games created and every user funded.  Before *)
(* the run, 0..capacity joins to game 1 have completed one after the       *)
(* other (the k-th by user NumUsers + 1 - k), and connection 1 may have    *)
(* sent join_room for game 1.                                              *)
SeatUser(k) == NumUsers + 1 - k
SeatCard(k) == IF k = 1 THEN "A" ELSE "B"
Seats == 0..MaxPlayers(1)

InitDurable(k) ==
  /\ balance = [u \in Users |->
                  IF \E i \in 1..k : SeatUser(i) = u THEN InitBalance - EntryFee(1)
                  ELSE InitBalance]
  /\ status = [g \in Games |-> IF g = 1 /\ k >= MinPlayers THEN "active" ELSE "waiting"]
  /\ prizePool = [g \in Games |-> IF g = 1 THEN k * EntryFee(1) ELSE 0]
  /\ winnerId = [g \in Games |-> 0]
  /\ calledNumbers = [g \in Games |-> <<>>]
  /\ currentNumber = [g \in Games |-> NoNumber]
  /\ participants = [i \in 1..k |->
                       [id |-> i, gameId |-> 1, userId |-> SeatUser(i),
                        bingoCard |-> SeatCard(i), markedNumbers |-> {}]]
  /\ ledger = [i \in 1..k |->
                 [userId |-> SeatUser(i), type |-> "game_entry",
                  amount |-> 0 - EntryFee(1), status |-> "completed", gameId |-> 1,
                  paymentCode |-> ""]]

InitRooms(attached) ==
  /\ roomOrder = IF attached THEN <<1>> ELSE <<>>
  /\ roomPlayers = [g \in Games |-> IF attached /\ g = 1 THEN {1} ELSE {}]
  /\ wsState = [w \in WS |-> "open"]
  /\ wsGame = [w \in WS |-> IF attached /\ w = 1 THEN 1 ELSE 0]
  /\ inbox = [w \in WS |->
                IF attached /\ w = 1
                THEN << [type |-> "player_joined", gameId |-> 1, playerCount |-> 1] >>
                ELSE <<>>]

InitHandlers ==
  /\ join = [r \in JoinReqs |-> JoinIdle]
  /\ mark = [m \in MarkReqs |-> MarkIdle]
  /\ tick = [t \in Ticks |-> TickIdle]
  /\ verify = [v \in VerifyReqs |-> VerifyIdle]
  /\ reqs = 0
  /\ faults = 0

Init == \E k \in Seats, attached \in BOOLEAN :
  InitDurable(k) /\ InitRooms(attached) /\ InitHandlers /\ gen = GenIdle

InitCard ==
  /\ InitDurable(0) /\ InitRooms(FALSE) /\ InitHandlers
  /\ \E x \in 0..(RandomSteps - 1), stride \in RandomStrides :
       gen = [GenIdle EXCEPT !.pc = "row", !.x = x, !.stride = stride]

NextCard == GenRow \/ GenDraw \/ GenTranspose

(* The call is synchronous and runs on once entered. *)
SpecCard == InitCard /\ [][NextCard]_vars /\ WF_vars(NextCard)

(* ------------------------------ next state ---------------------------- *)
Next ==
  \/ \E r \in JoinReqs, u \in UserIds, g \in GameIds : JoinBegin(r, u, g)
  \/ \E r \in JoinReqs : JoinCheckGame(r)
  \/ \E r \in JoinReqs : JoinCheckParts(r)
  \/ \E r \in JoinReqs : JoinCheckUser(r)
  \/ \E r \in JoinReqs : JoinCreateTx(r)
  \/ \E r \in JoinReqs : JoinInsert(r)
  \/ \E r \in JoinReqs : JoinUpdatePool(r)
  \/ \E r \in JoinReqs : JoinRecount(r)
  \/ \E r \in JoinReqs : JoinMaybeStart(r)
  \/ \E r \in JoinReqs : JoinBroadcastStart(r)
  \/ \E r \in JoinReqs : JoinFail(r)
  \/ \E w \in WS, g \in Games : WsJoinRoom(w, g)
  \/ \E w \in WS : WsDisconnect(w)
  \/ \E w \in WS : WsOnClose(w)
  \/ \E m \in MarkReqs, w \in WS, pid \in 1..(Len(participants) + 1),
        marks \in MarkChoices : MarkBegin(m, w, pid, marks)
  \/ \E m \in MarkReqs : MarkGetParticipants(m)
  \/ \E m \in MarkReqs : MarkCheckWin(m)
  \/ \E m \in MarkReqs : MarkGetUser(m)
  \/ \E m \in MarkReqs : MarkCredit(m)
  \/ \E m \in MarkReqs : MarkCreateTx(m)
  \/ \E m \in MarkReqs : MarkBroadcast(m)
  \/ \E m \in MarkReqs : MarkFail(m)
  \/ \E t \in Ticks : TickFire(t)
  \/ \E t \in Ticks : TickNext(t)
  \/ \E t \in Ticks : TickCall(t)
  \/ \E t \in Ticks : TickBroadcast(t)
  \/ \E t \in Ticks : TickFail(t)

Spec == Init /\ [][Next]_vars

(* ------------------- the number caller, round after round -------------- *)
(* The interval fires again and again: a callback that has returned or     *)
(* rejected is followed by the next one, with no bound on their number.    *)
(* Here every storage call settles within the interval, so that no two     *)
(* callbacks overlap.                                                      *)
TickFireAgain(t) ==
  /\ \A q \in Ticks : tick[q].pc \in {"idle", "done", "failed"}
  /\ tick' = [tick EXCEPT ![t] = [TickIdle EXCEPT !.pc = "loop"]]
  /\ UNCHANGED <<gen, verify, durable, wsVars, inbox, join, mark, reqs, faults>>

(* Both games have been joined by users NumUsers and NumUsers - 1, one     *)
(* after the other, and are active; connection g may have sent join_room   *)
(* for game g.                                                             *)
LiveSeat(i) == [gameId |-> (i + 1) \div 2, userId |-> NumUsers - ((i + 1) % 2)]

InitLiveDurable ==
  /\ balance = [u \in Users |->
                  IF u >= NumUsers - 1 THEN InitBalance - EntryFee(1) - EntryFee(2)
                  ELSE InitBalance]
  /\ status = [g \in Games |-> IF g <= 2 THEN "active" ELSE "waiting"]
  /\ prizePool = [g \in Games |-> IF g <= 2 THEN MinPlayers * EntryFee(g) ELSE 0]
  /\ winnerId = [g \in Games |-> 0]
  /\ calledNumbers = [g \in Games |-> <<>>]
  /\ currentNumber = [g \in Games |-> NoNumber]
  /\ participants = [i \in 1..4 |->
                       [id |-> i, gameId |-> LiveSeat(i).gameId,
                        userId |-> LiveSeat(i).userId,
                        bingoCard |-> SeatCard(1 + ((i + 1) % 2)), markedNumbers |-> {}]]
  /\ ledger = [i \in 1..4 |->
                 [userId |-> LiveSeat(i).userId, type |-> "game_entry",
                  amount |-> 0 - EntryFee(LiveSeat(i).gameId), status |-> "completed",
                  gameId |-> LiveSeat(i).gameId, paymentCode |-> ""]]

InitLiveRooms(rooms) ==
  /\ roomOrder = IF rooms = {} THEN <<>>
                 ELSE IF rooms = {1} THEN <<1>>
                 ELSE IF rooms = {2} THEN <<2>> ELSE <<1, 2>>
  /\ roomPlayers = [g \in Games |-> IF g \in rooms THEN {g} ELSE {}]
  /\ wsState = [w \in WS |-> "open"]
  /\ wsGame = [w \in WS |-> IF w \in rooms THEN w ELSE 0]
  /\ inbox = [w \in WS |->
                IF w \in rooms
                THEN << [type |-> "player_joined", gameId |-> w, playerCount |-> 1] >>
                ELSE <<>>]

InitLive == \E rooms \in SUBSET {1, 2} :
  InitLiveDurable /\ InitLiveRooms(rooms) /\ InitHandlers /\ gen = GenIdle

NextLive ==
  \/ TickFireAgain(1)
  \/ \E t \in Ticks : TickNext(t)
  \/ \E t \in Ticks : TickCall(t)
  \/ \E t \in Ticks : TickBroadcast(t)
  \/ \E t \in Ticks : TickFail(t)
  \/ \E w \in WS, g \in Games : WsJoinRoom(w, g)
  \/ \E w \in WS : WsDisconnect(w)
  \/ \E w \in WS : WsOnClose(w)

(* The timer keeps firing and every storage call a callback awaits         *)
(* settles.                                                                *)
LiveFairness ==
  \A t \in Ticks :
    /\ WF_vars(TickFireAgain(t))
    /\ WF_vars(TickNext(t))
    /\ WF_vars(TickCall(t))
    /\ WF_vars(TickBroadcast(t))

SpecLive == InitLive /\ [][NextLive]_vars /\ LiveFairness

(* ------------------- checkWinCondition, input by input ----------------- *)
(* One mark_number message to the room of game 1, which users NumUsers     *)
(* (card A) and NumUsers - 1 (card B) have joined.  Its markedNumbers are  *)
(* a line of a card, whole or short of one value, with or without 0, or    *)
(* all the values of a card but one or two.                                *)
Cells == (1..5) \X (1..5)
CellValue(card, cell) == card[cell[1]][cell[2]]
CardValues(card) == {CellValue(card, cell) : cell \in Cells} \ {0}

WinLines ==
  {{<<row, col>> : col \in 1..5} : row \in 1..5}
  \cup {{<<row, col>> : row \in 1..5} : col \in 1..5}
  \cup {{<<i, i>> : i \in 1..5}, {<<i, 6 - i>> : i \in 1..5}}

LineValues(card, line) == {CellValue(card, cell) : cell \in line} \ {0}

WinMarks ==
  UNION {
    {(LineValues(CardOf(c), line) \ {x}) \cup z :
        line \in WinLines, x \in CardValues(CardOf(c)) \cup {0}, z \in {{}, {0}}}
    \cup {CardValues(CardOf(c)) \ {x, y} :
            x \in CardValues(CardOf(c)), y \in CardValues(CardOf(c))}
    : c \in CardNames}

InitWin ==
  InitDurable(MinPlayers) /\ InitRooms(TRUE) /\ InitHandlers /\ gen = GenIdle

NextWin ==
  \/ \E pid \in 1..MinPlayers, marks \in WinMarks : MarkBegin(1, 1, pid, marks)
  \/ MarkGetParticipants(1)
  \/ MarkCheckWin(1)
  \/ MarkGetUser(1)
  \/ MarkCredit(1)
  \/ MarkCreateTx(1)
  \/ MarkBroadcast(1)

SpecWin == InitWin /\ [][NextWin]_vars

(* ----------------- POST /api/admin/verify-payment --------------------- *)
(* The codes a request may carry: those of the deposits, and none. *)
PaymentCodes == {"111111", "222222", "333333"}

VerifyDone(v, res) ==
  [verify[v] EXCEPT !.pc = "done", !.res = res]

(* UPDATE transactions SET status = 'completed' WHERE id = transactionId *)
setTransactionCompleted(transactionId) ==
  [i \in DOMAIN ledger |->
     IF i = transactionId THEN [ledger[i] EXCEPT !.status = "completed"] ELSE ledger[i]]

(* The request arrives; 400 without a code or an id, else                  *)
(* storage.verifyPaymentByCode and its SELECT by id, code and status       *)
(* 'pending'.                                                              *)
VerifyBegin(v, code, tid) ==
  /\ CanArrive
  /\ verify[v].pc = "idle"
  /\ \A q \in VerifyReqs : q < v => verify[q].pc # "idle"
  /\ reqs' = reqs + 1
  /\ verify' = [verify EXCEPT ![v] =
       IF code = "" \/ tid = 0
       THEN [VerifyIdle EXCEPT !.pc = "done", !.paymentCode = code,
                               !.transactionId = tid, !.res = "BadRequest"]
       ELSE LET hit == /\ tid \in DOMAIN ledger
                       /\ ledger[tid].paymentCode = code
                       /\ ledger[tid].status = "pending"
            IN  [VerifyIdle EXCEPT !.pc = "selected", !.paymentCode = code,
                                   !.transactionId = tid, !.found = hit,
                                   !.userId = IF hit THEN ledger[tid].userId ELSE 0,
                                   !.amount = IF hit THEN ledger[tid].amount ELSE 0]]
  /\ UNCHANGED <<gen, durable, wsVars, inbox, join, mark, tick, faults>>

(* Without a row the call throws and the route answers 400; with one, the  *)
(* UPDATE of the status by id.                                             *)
VerifySetCompleted(v) ==
  /\ verify[v].pc = "selected"
  /\ IF verify[v].found
     THEN /\ ledger' = setTransactionCompleted(verify[v].transactionId)
          /\ verify' = [verify EXCEPT ![v].pc = "completed"]
     ELSE /\ verify' = [verify EXCEPT ![v] = VerifyDone(v, "NotFound")]
          /\ UNCHANGED ledger
  /\ UNCHANGED <<gen, balance, gameVars, participants, wsVars, inbox, join, mark, tick,
                 reqs, faults>>

(* this.updateUserBalance(transaction.userId, transaction.amount); the     *)
(* route answers with the updated transaction.                             *)
VerifyCredit(v) ==
  /\ verify[v].pc = "completed"
  /\ balance' = updateUserBalance(verify[v].userId, verify[v].amount)
  /\ verify' = [verify EXCEPT ![v] = VerifyDone(v, "ok")]
  /\ UNCHANGED <<gen, gameVars, participants, ledger, wsVars, inbox, join, mark, tick,
                 reqs, faults>>

(* The storage call of the next step rejects: the catch block answers 400. *)
VerifyFail(v) ==
  /\ CanFault
  /\ \/ verify[v].pc = "selected" /\ verify[v].found
     \/ verify[v].pc = "completed"
  /\ faults' = faults + 1
  /\ verify' = [verify EXCEPT ![v] = VerifyDone(v, "StorageError")]
  /\ UNCHANGED <<gen, durable, wsVars, inbox, join, mark, tick, reqs>>

(* Before the run POST /api/create-payment-code has made a deposit of      *)
(* DepositAmount(u) for each of users 1 and 2, both pending, and one of    *)
(* user 3 that has been verified.                                          *)
DepositAmount(u) == IF u = 3 THEN InitBalance ELSE 3 - u
DepositCode(u) == IF u = 1 THEN "111111" ELSE IF u = 2 THEN "222222" ELSE "333333"

InitPay ==
  /\ balance = [u \in Users |-> InitBalance]
  /\ status = [g \in Games |-> "waiting"]
  /\ prizePool = [g \in Games |-> 0]
  /\ winnerId = [g \in Games |-> 0]
  /\ calledNumbers = [g \in Games |-> <<>>]
  /\ currentNumber = [g \in Games |-> NoNumber]
  /\ participants = <<>>
  /\ ledger = [u \in 1..3 |->
                 [userId |-> u, type |-> "deposit", amount |-> DepositAmount(u),
                  status |-> IF u = 3 THEN "completed" ELSE "pending", gameId |-> 0,
                  paymentCode |-> DepositCode(u)]]
  /\ InitRooms(FALSE) /\ InitHandlers /\ gen = GenIdle

NextPay ==
  \/ \E v \in VerifyReqs, code \in PaymentCodes \cup {""}, tid \in 0..(Len(ledger) + 1) :
       VerifyBegin(v, code, tid)
  \/ \E v \in VerifyReqs : VerifySetCompleted(v)
  \/ \E v \in VerifyReqs : VerifyCredit(v)
  \/ \E v \in VerifyReqs : VerifyFail(v)

SpecPay == InitPay /\ [][NextPay]_vars

(* ============================ properties ============================== *)
JoinInFlight(r) == join[r].pc \notin {"idle", "done"}
MarkInFlight(m) == mark[m].pc \notin {"idle", "done"}
Quiet == (\A r \in JoinReqs : ~JoinInFlight(r)) /\ (\A m \in MarkReqs : ~MarkInFlight(m))

RowsOf(g) == getGameParticipants(g)
RowsOfUser(g, u) == {i \in DOMAIN participants :
                       participants[i].gameId = g /\ participants[i].userId = u}
GameWinRows(g) == {i \in DOMAIN ledger :
                     ledger[i].type = "game_win" /\ ledger[i].gameId = g}

RECURSIVE LedgerSum(_, _)
LedgerSum(u, n) ==
  IF n = 0 THEN 0
  ELSE LedgerSum(u, n - 1) + (IF ledger[n].userId = u THEN ledger[n].amount ELSE 0)

HasEvent(w, type, g) ==
  \E i \in DOMAIN inbox[w] : inbox[w][i].type = type /\ inbox[w][i].gameId = g

(* C1: when the winning mark_number messages of two participants of one    *)
(* game are in flight at the same time, only one of them settles the game: *)
(* never have both credited a balance and recorded a game_win row.         *)
C1_WinExactlyOnce ==
  \A m1, m2 \in MarkReqs :
    (m1 # m2 /\ MarkInFlight(m1) /\ MarkInFlight(m2)
       /\ mark[m1].gameId # 0 /\ mark[m1].gameId = mark[m2].gameId
       /\ mark[m1].participantId # mark[m2].participantId)
    => ~(mark[m1].pc = "recorded" /\ mark[m2].pc = "recorded")

(* C2: a mark_number that arrives when its game is already completed is a  *)
(* no-op: it never credits a balance, records a game_win row or announces  *)
(* a winner (no storage call having rejected).                             *)
C2_SettledIsNoOp ==
  \A m \in MarkReqs :
    (mark[m].late /\ faults = 0)
                 => /\ mark[m].pc \notin {"credited", "recorded"}
                    /\ mark[m].res # "won"

(* C3: the users that hold a participant row of a game never outnumber the *)
(* game's capacity, however the joins of different users interleave.       *)
C3_JoinExclusion ==
  \A g \in Games :
    Cardinality({RowsOf(g)[i].userId : i \in DOMAIN RowsOf(g)}) <= MaxPlayers(g)

(* C4: the debit of a join takes exactly the entry fee off the balance the *)
(* user has at that moment, and its pool update adds exactly the entry fee *)
(* to the pool the game has at that moment (joins of one user to one game  *)
(* set aside).                                                             *)
C4_JoinAccounting ==
  [][\A r \in JoinReqs :
       (\A q \in JoinReqs \ {r} :
          ~(join[q].userId = join[r].userId /\ join[q].gameId = join[r].gameId))
       =>
       /\ (join[r].pc = "checkUser" /\ join'[r].pc = "debited")
            => balance'[join[r].userId]
                 = balance[join[r].userId] - EntryFee(join[r].gameId)
       /\ (join[r].pc = "joined" /\ join'[r].pc = "pooled")
            => prizePool'[join[r].gameId]
                 = prizePool[join[r].gameId] + EntryFee(join[r].gameId)]_vars

(* C5: the credit of a settlement adds exactly the pool the game had when  *)
(* it was settled to the balance the winner has at that moment, and the    *)
(* game_win row and the game_won event carry that amount.                  *)
C5_SettlementPayout ==
  [][\A m \in MarkReqs :
       /\ (mark[m].pc = "gotUser" /\ mark'[m].pc = "credited")
            => balance'[mark[m].userId] = balance[mark[m].userId] + mark[m].pool
       /\ (mark[m].pc = "credited" /\ mark'[m].pc = "recorded")
            => ledger'[Len(ledger')].amount = mark[m].pool
       /\ (mark[m].pc = "recorded" /\ mark'[m].pc = "done")
            => \A w \in WS : Len(inbox'[w]) > Len(inbox[w])
                               => inbox'[w][Len(inbox'[w])].prizeAmount = mark[m].pool]_vars

(* C6: with every handler finished and no storage call rejected, every     *)
(* balance is the initial balance plus the user's ledger rows: no debit or *)
(* credit is lost (users with two rows in one game and games settled      *)
(* twice set aside).                                                       *)
C6_NoLostBalanceUpdate ==
  (Quiet /\ faults = 0
     /\ \A g \in Games : /\ Cardinality(GameWinRows(g)) <= 1
                          /\ \A u \in Users : Cardinality(RowsOfUser(g, u)) <= 1)
  => \A u \in Users : balance[u] = InitBalance + LedgerSum(u, Len(ledger))

(* C7: a join that ends in a storage error leaves the database as it was:  *)
(* when that join is all that has happened, the balances, the ledger, the  *)
(* participants, the pools and the statuses are those of the initial state.*)
C7_JoinAllOrNothing ==
  (reqs = 1 /\ join[1].pc = "done" /\ join[1].res = "StorageError")
  => \E k \in Seats : InitDurable(k)

(* C8: once the mark_number handlers have finished, a completed game with  *)
(* a winner has a game_win row of that winner.                             *)
C8_SettlementAllOrNothing ==
  \A g \in Games :
    (status[g] = "completed" /\ winnerId[g] # 0 /\ \A m \in MarkReqs : ~MarkInFlight(m)
       /\ \A w \in WS : wsGame[w] \in {0, g})
    => \E i \in GameWinRows(g) : ledger[i].userId = winnerId[g]

(* A join that answered ok after counting enough players leaves a game    *)
(* that is never waiting again.                                            *)
C9_StaysActivated ==
  \A r \in JoinReqs :
    (join[r].pc = "done" /\ join[r].res = "ok" /\ join[r].count >= MinPlayers)
    => status[join[r].gameId] # "waiting"

(* While every storage call has succeeded, a game with enough participant  *)
(* rows and no join of its own in flight is not waiting.                   *)
C9_NoFormingWithQuorum ==
  \A g \in Games :
    (faults = 0 /\ Len(RowsOf(g)) >= MinPlayers
       /\ \A r \in JoinReqs : JoinInFlight(r) => join[r].gameId # g)
    => status[g] # "waiting"

(* What the last two steps of a join do, by the count the join took.       *)
C9_JoinSteps ==
  \A r \in JoinReqs :
    LET g == join[r].gameId
    IN  /\ (join[r].pc = "counted" /\ join'[r].pc = "done" /\ join'[r].res = "ok")
             => (join[r].count < MinPlayers /\ status' = status /\ inbox' = inbox)
        /\ (join[r].pc = "counted" /\ join'[r].pc = "activated")
             => (join[r].count >= MinPlayers /\ status'[g] = "active")
        /\ (join[r].pc = "activated" /\ join'[r].pc = "done")
             => \A w \in WS :
                  inbox'[w] = IF HasRoom(g) /\ w \in roomPlayers[g] /\ wsState[w] = "open"
                              THEN Append(inbox[w], [type |-> "game_started", gameId |-> g])
                              ELSE inbox[w]

C10_OneRowPerUser ==
  \A g \in Games, u \in Users : Cardinality(RowsOfUser(g, u)) <= 1

(* ------------------------------ C11 ----------------------------------- *)
Validation == {"NotFound", "InvalidState", "Full", "AlreadyJoined", "InsufficientFunds"}

(* C11: a join answers NotFound, InvalidState, Full, AlreadyJoined or      *)
(* InsufficientFunds only from one of its three checks, and neither that   *)
(* step nor any step that brought the join to one of the checks changes a  *)
(* balance, the ledger, the participants, a prize pool or a status, or     *)
(* sends an event.                                                         *)
C11_ValidationChangesNothing ==
  [][\A r \in JoinReqs :
       /\ (join[r].pc # "done" /\ join'[r].pc = "done" /\ join'[r].res \in Validation)
            => /\ join[r].pc \in {"checkGame", "checkParts", "checkUser"}
               /\ durable' = durable /\ inbox' = inbox
       /\ (join'[r] # join[r] /\ join'[r].pc \in {"checkGame", "checkParts", "checkUser"})
            => durable' = durable /\ inbox' = inbox]_vars

(* A join has answered Full for a game that holds as many rows as it has   *)
(* seats.                                                                  *)
C11_Witness ==
  \E r \in JoinReqs :
    /\ join[r].pc = "done" /\ join[r].res = "Full"
    /\ Len(RowsOf(join[r].gameId)) = MaxPlayers(join[r].gameId)

(* ------------------------------ C12 ----------------------------------- *)
(* A game has a winner exactly when it is completed. *)
C12_WinnerIffSettled ==
  \A g \in Games : winnerId[g] # 0 <=> status[g] = "completed"

(* No step takes a completed game to another status. *)
C12_SettledStays ==
  \A g \in Games : status[g] = "completed" => status'[g] = "completed"

(* No step changes a winner that is set. *)
C12_WinnerWriteOnce ==
  \A g \in Games : winnerId[g] # 0 => winnerId'[g] = winnerId[g]

(* C12: in every reachable state a game has a winner exactly when it is    *)
(* completed; a winner that is set never changes; and a completed game     *)
(* never becomes active or waiting again.                                  *)
C12_LifecycleForwardOnly ==
  /\ []C12_WinnerIffSettled
  /\ [][C12_SettledStays]_vars
  /\ [][C12_WinnerWriteOnce]_vars

(* ------------------------------ C13 ----------------------------------- *)
(* A stored list holds no number twice and ends with the current number. *)
C13_UniqueAndCurrent ==
  \A g \in Games :
    LET called == calledNumbers[g]
    IN  /\ \A i, j \in DOMAIN called : called[i] = called[j] => i = j
        /\ currentNumber[g] = IF called = <<>> THEN NoNumber ELSE called[Len(called)]

(* The list a callback stores is the list stored before plus one element. *)
C13_StoresExtension ==
  \A t \in Ticks :
    (tick[t].pc = "gotGame" /\ tick'[t].pc = "updated")
    => LET old == calledNumbers[tick[t].gameId]
           new == calledNumbers'[tick[t].gameId]
       IN  Len(new) = Len(old) + 1 /\ SubSeq(new, 1, Len(old)) = old

(* C13: every list of called numbers a callback stores extends the list    *)
(* stored before by one element, also when two callbacks overlap; a stored *)
(* list holds no number twice and its last element is the current number.  *)
C13_CalledAppendOnly ==
  /\ []C13_UniqueAndCurrent
  /\ [][C13_StoresExtension]_vars

(* ------------------------------ C14 ----------------------------------- *)
AllCalled(g) == Len(calledNumbers[g]) = TopNumber

(* A callback that stores appends one number that was not in the list, and *)
(* a callback that finds every number called changes and sends nothing.    *)
C14_TickAppendsOne ==
  \A t \in Ticks :
    LET g == tick[t].gameId
    IN  /\ (tick[t].pc = "gotGame" /\ tick'[t].pc = "updated")
             => /\ ~Includes(calledNumbers[g], tick'[t].next)
                /\ calledNumbers'[g] = Append(calledNumbers[g], tick'[t].next)
        /\ (tick[t].pc = "gotGame" /\ tick'[t] # tick[t] /\ g \in Games /\ AllCalled(g))
             => durable' = durable /\ inbox' = inbox

(* An active game whose storage calls succeed has all its numbers called   *)
(* in the end.                                                             *)
C14_AllEventuallyCalled ==
  \A g \in Games :
    [](status[g] = "active" /\ faults = 0) => <>AllCalled(g)

(* C14: for a game that stays active, with storage calls succeeding and    *)
(* the interval firing again and again, every callback that stores         *)
(* appends exactly one number not called before, in the end every number   *)
(* has been called, and from then on a callback changes nothing and sends  *)
(* nothing.                                                                *)
C14_SchedulerProgress ==
  /\ [][C14_TickAppendsOne]_vars
  /\ C14_AllEventuallyCalled

(* ------------------------------ C15 ----------------------------------- *)
(* C15: an active game whose storage calls succeed gets a further number   *)
(* called from whatever state it is in while gameRooms holds no room for   *)
(* it, as long as numbers are left.                                        *)
C15_CallingWithoutTransports ==
  \A g \in Games : \A n \in 0..(TopNumber - 1) :
    [](status[g] = "active" /\ faults = 0)
    => ((~HasRoom(g) /\ Len(calledNumbers[g]) = n) ~> (Len(calledNumbers[g]) > n))

(* ------------------------------ C16 ----------------------------------- *)
(* Game g has been settled and its game_won has been sent. *)
SettledAndAnnounced(g) ==
  /\ status[g] = "completed"
  /\ \E m \in MarkReqs : mark[m].pc = "done" /\ mark[m].res = "won" /\ mark[m].gameId = g

(* The step stores no number for game g and sends no number_called for it. *)
NoCallFor(g) ==
  /\ calledNumbers'[g] = calledNumbers[g]
  /\ currentNumber'[g] = currentNumber[g]
  /\ \A w \in WS :
       Len(inbox'[w]) > Len(inbox[w])
       => ~(inbox'[w][Len(inbox'[w])].type = "number_called"
            /\ inbox'[w][Len(inbox'[w])].gameId = g)

(* C16: once a game is completed and its game_won has been sent, no step   *)
(* changes its called numbers or its current number or sends a             *)
(* number_called for it; and none does while the game is waiting.          *)
C16_StoppedBySettlement ==
  [][\A g \in Games :
       (SettledAndAnnounced(g) \/ status[g] = "waiting") => NoCallFor(g)]_vars

(* ------------------------------ C17 ----------------------------------- *)
(* The position in gameRooms of the game whose storage call callback t is  *)
(* awaiting.                                                               *)
TickAwaitedPos(t) == IF tick[t].pc = "loop" THEN tick[t].pos + 1 ELSE tick[t].pos

(* A room later in the round belongs to an active game. *)
ActiveRoomAfter(i) ==
  \E j \in DOMAIN roomOrder : j > i /\ status[roomOrder[j]] = "active"

(* C17: when a storage call of a callback rejects, the step changes no     *)
(* table and sends nothing, and where the room of another active game is   *)
(* still to come in the round the callback goes on to it.                  *)
C17_FailedTickSkipped ==
  [][\A t \in Ticks :
       (tick'[t] # tick[t] /\ faults' = faults + 1)
       => /\ durable' = durable /\ inbox' = inbox
          /\ ActiveRoomAfter(TickAwaitedPos(t))
               => (tick'[t].pc = "loop" /\ tick'[t].pos = TickAwaitedPos(t))]_vars

(* ------------------------------ C18 ----------------------------------- *)
(* C18: every room in gameRooms has at least one connection, and no        *)
(* connection whose close handler has run is in a room.                    *)
C18_RegistryMembership ==
  \A g \in Games :
    HasRoom(g) => /\ roomPlayers[g] # {}
                  /\ \A w \in roomPlayers[g] : wsState[w] # "closed"

(* ------------------------------ C19 ----------------------------------- *)
(* A step that sends anything sends one message, once, to exactly the open *)
(* connections of the room of the message's game, at the end of what each  *)
(* has received.                                                           *)
C19_OneBroadcast ==
  inbox' # inbox
  => \E w0 \in WS :
       /\ inbox'[w0] # inbox[w0]
       /\ Len(inbox'[w0]) > 0
       /\ LET msg == inbox'[w0][Len(inbox'[w0])]
          IN  \A w \in WS :
                inbox'[w] = IF w \in roomPlayers'[msg.gameId] /\ wsState[w] = "open"
                            THEN Append(inbox[w], msg)
                            ELSE inbox[w]

(* The step of a join, a mark_number handler or a callback that            *)
(* broadcasts ends as it does when every member is open.                   *)
C19_SenderUnharmed ==
  /\ \A r \in JoinReqs :
       (join[r].pc = "activated" /\ join'[r] # join[r])
       => (join'[r].pc = "done" /\ join'[r].res = "ok")
  /\ \A m \in MarkReqs :
       (mark[m].pc = "recorded" /\ mark'[m] # mark[m])
       => (mark'[m].pc = "done" /\ mark'[m].res = "won")
  /\ \A t \in Ticks :
       (tick[t].pc = "updated" /\ tick'[t].pc # "updated")
       => (tick'[t].pc = "loop" /\ tick'[t].pos = tick[t].pos)

(* C19: every broadcast delivers its event exactly once to each connection *)
(* of the room that is open and to no other connection, after everything   *)
(* the connection received before, and the join, mark_number handler or    *)
(* callback that broadcasts carries on whatever the members' states.       *)
C19_BroadcastDelivery ==
  [][C19_OneBroadcast /\ C19_SenderUnharmed]_vars

(* A join has activated a game whose room holds a connection that is no    *)
(* longer open: the join answered ok and the connection got no             *)
(* game_started.                                                           *)
C19_Witness ==
  \E r \in JoinReqs : \E w \in WS :
    /\ join[r].pc = "done" /\ join[r].res = "ok" /\ join[r].count >= MinPlayers
    /\ HasRoom(join[r].gameId) /\ w \in roomPlayers[join[r].gameId]
    /\ wsState[w] = "closing"
    /\ ~HasEvent(w, "game_started", join[r].gameId)

(* ------------------------------ C20 ----------------------------------- *)
InRange(v, col) == rangeMin(col) <= v /\ v <= rangeMax(col)

(* The cells of column col that are drawn: all but the free space. *)
DrawnRows(col) == IF col = 2 THEN {0, 1, 3, 4} ELSE 0..4

(* C20 as stated: in every returned card each column holds 5 pairwise      *)
(* distinct integers of its range, and cell (2, 2) is 0.                   *)
C20_CardShapeAsStated ==
  gen.pc = "done"
  => /\ \A col \in 0..4 :
          /\ \A row \in 0..4 : InRange(gen.card[row][col], col)
          /\ \A r1, r2 \in 0..4 : gen.card[r1][col] = gen.card[r2][col] => r1 = r2
     /\ gen.card[2][2] = 0

(* Every returned card has 0 at (2, 2) and, in the other cells of each     *)
(* column, pairwise distinct integers of the column's range.               *)
C20_Shape ==
  gen.pc = "done"
  => /\ gen.card[2][2] = 0
     /\ \A col \in 0..4 :
          /\ \A row \in DrawnRows(col) : InRange(gen.card[row][col], col)
          /\ \A r1, r2 \in DrawnRows(col) :
               gen.card[r1][col] = gen.card[r2][col] => r1 = r2

(* C20: every card generateBingoCard returns has the free sentinel 0 at    *)
(* (2, 2) and, in all other cells of each column c, pairwise distinct      *)
(* integers within [15c + 1, 15c + 15] (5 of them, 4 in column 2); and     *)
(* every call returns, the draws visiting every value.                     *)
C20_CardShape == []C20_Shape /\ <>(gen.pc = "done")

(* A card has been returned after a number was drawn again on a collision. *)
C20_Witness == gen.pc = "done" /\ gen.resampled

(* ------------------------------ C21 ----------------------------------- *)
(* A line of the card all of whose cells are 0 or in the marked set. *)
LineCovered(card, marked, line) ==
  \A cell \in line : CellValue(card, cell) = 0 \/ CellValue(card, cell) \in marked

SomeLineCovered(card, marked) ==
  \E line \in WinLines : LineCovered(card, marked, line)

(* The handler goes on to settle exactly when a line is covered. *)
C21_SettlesIffCovered ==
  \A m \in MarkReqs :
    (mark[m].pc = "gotParticipants" /\ mark[m].player /\ mark'[m] # mark[m])
    => (mark'[m].pc = "won"
          <=> SomeLineCovered(CardOf(mark[m].card), mark[m].markedNumbers))

(* Four of the five values of a row without the free cell do not win, and  *)
(* 0 in the marked set makes no difference.                                *)
C21_FourOfFiveAndZero ==
  \A m \in MarkReqs : \A c \in CardNames :
    LET marked == mark[m].markedNumbers
    IN  /\ \A row \in {1, 2, 4, 5} : \A col \in 1..5 :
             marked = {CardOf(c)[row][k] : k \in (1..5) \ {col}}
             => ~checkWinCondition(CardOf(c), marked)
        /\ checkWinCondition(CardOf(c), marked \cup {0})
             = checkWinCondition(CardOf(c), marked \ {0})

(* C21: for every card and every marked set, checkWinCondition is true     *)
(* exactly when one of the 12 lines (5 rows, 5 columns, 2 diagonals) has   *)
(* every cell marked or equal to 0; four of the five values of a row       *)
(* without the free cell give false; and 0 in the marked set changes       *)
(* nothing.                                                                *)
C21_WinEvaluator ==
  /\ [][C21_SettlesIffCovered]_vars
  /\ []C21_FourOfFiveAndZero

(* A handler has settled the game on the four numbers of the anti-diagonal *)
(* of its participant's card, 0 not among them.                            *)
C21_Witness ==
  \E m \in MarkReqs :
    /\ mark[m].pc = "done" /\ mark[m].res = "won"
    /\ mark[m].markedNumbers
         = {CardOf(SeatCard(mark[m].participantId))[i][6 - i] : i \in 1..5} \ {0}

(* ------------------------------ C22 ----------------------------------- *)
(* What each step of a verification does: the status update marks the      *)
(* transaction completed, the credit adds its amount to the balance, and   *)
(* an attempt that finds no pending transaction of that code changes       *)
(* nothing.                                                                *)
C22_VerifySteps ==
  \A v \in VerifyReqs :
    /\ (verify[v].pc = "selected" /\ verify'[v].pc = "completed")
         => ledger'[verify[v].transactionId].status = "completed"
    /\ (verify[v].pc = "completed" /\ verify'[v].pc = "done" /\ verify'[v].res = "ok")
         => balance'[verify[v].userId] = balance[verify[v].userId] + verify[v].amount
    /\ (verify[v].pc # "done" /\ verify'[v].pc = "done"
          /\ verify'[v].res \in {"NotFound", "BadRequest"})
         => durable' = durable

(* No transaction is credited by two verifications. *)
C22_CreditedOnce ==
  \A v1, v2 \in VerifyReqs :
    (verify[v1].res = "ok" /\ verify[v2].res = "ok"
       /\ verify[v1].transactionId = verify[v2].transactionId)
    => v1 = v2

(* An attempt with a wrong code or on a transaction that is not pending    *)
(* fails.                                                                  *)
C22_WrongFails ==
  \A v \in VerifyReqs :
    (verify[v].pc = "selected" /\ verify'[v] # verify[v] /\ ~verify[v].found)
    => (verify'[v].pc = "done" /\ verify'[v].res = "NotFound")

(* C22: a verification that succeeds on a pending deposit marks the        *)
(* transaction completed and leaves the user's balance at the balance      *)
(* before plus the transaction's amount; however the attempts interleave,  *)
(* no transaction is credited twice; and an attempt with a wrong code or   *)
(* on a transaction that is not pending fails and changes nothing.         *)
C22_DepositCreditedOnce ==
  /\ [][C22_VerifySteps /\ C22_WrongFails]_vars
  /\ []C22_CreditedOnce

(* ------------------------------ C23 ----------------------------------- *)
(* No step lowers the pool of a game that is not completed. *)
C23_PoolNeverDecreases ==
  \A g \in Games : status[g] # "completed" => prizePool'[g] >= prizePool[g]

(* With no join in flight and no storage call rejected, the pool is the    *)
(* entry fee times the number of participant rows.                         *)
C23_PoolMatchesParticipants ==
  ((\A r \in JoinReqs : ~JoinInFlight(r)) /\ faults = 0)
  => \A g \in Games : prizePool[g] = EntryFee(g) * Len(RowsOf(g))

(* C23: however the joins of a game interleave, no stored pool is lower    *)
(* than the pool stored before, and in every state with no join in flight  *)
(* the pool equals the entry fee times the number of participants.         *)
C23_PoolMonotone ==
  /\ [][C23_PoolNeverDecreases]_vars
  /\ []C23_PoolMatchesParticipants

(* ------------------------------ C24 ----------------------------------- *)
RECURSIVE BalanceSum(_)
BalanceSum(n) == IF n = 0 THEN 0 ELSE BalanceSum(n - 1) + balance[n]

RECURSIVE OpenPoolSum(_)
OpenPoolSum(n) ==
  IF n = 0 THEN 0
  ELSE OpenPoolSum(n - 1) + (IF status[n] # "completed" THEN prizePool[n] ELSE 0)

(* C24: in every state with no join and no settlement in flight (and no    *)
(* storage call rejected), the balances of all users plus the prize pools  *)
(* of the games that are not completed add up to the sum of the initial    *)
(* balances.                                                               *)
C24_FundsConserved ==
  (Quiet /\ faults = 0)
  => BalanceSum(NumUsers) + OpenPoolSum(NumGames) = NumUsers * InitBalance

(* ------------------------------ C25 ----------------------------------- *)
(* Participant pid has a row in game g. *)
IsParticipantOf(pid, g) ==
  \E i \in DOMAIN participants : participants[i].id = pid /\ participants[i].gameId = g

(* The step on which a mark_number arrives for a participant id that has   *)
(* no row in the game of its connection changes no table and sends         *)
(* nothing.                                                                *)
C25_ForeignMarkChangesNothing ==
  \A m \in MarkReqs :
    (mark[m].pc = "idle" /\ mark'[m].pc # "idle"
       /\ wsGame[mark'[m].ws] # 0
       /\ ~IsParticipantOf(mark'[m].participantId, wsGame[mark'[m].ws]))
    => durable' = durable /\ inbox' = inbox

(* A handler that does not find its participant among the rows of the game *)
(* ends as NotFound, and that step changes nothing.                        *)
C25_NotFound ==
  \A m \in MarkReqs :
    (mark[m].pc = "gotParticipants" /\ ~mark[m].player /\ mark'[m] # mark[m])
    => /\ mark'[m].pc = "done" /\ mark'[m].res \in {"NotFound", "StorageError"}
       /\ durable' = durable /\ inbox' = inbox

(* A mark_number from a connection that has sent no join_room is dropped   *)
(* on arrival and changes nothing.                                         *)
C25_NoRoomNoChange ==
  \A m \in MarkReqs :
    (mark[m].pc = "idle" /\ mark'[m].pc # "idle" /\ wsGame[mark'[m].ws] = 0)
    => /\ mark'[m].pc = "done" /\ mark'[m].res = "ignored"
       /\ durable' = durable /\ inbox' = inbox

(* C25: a mark_number whose participantId is not a participant of the game *)
(* its connection joined (an unknown id, or a participant of another game) *)
(* is rejected as NotFound and changes no state, the marked numbers of     *)
(* that other participant included; a mark_number from a connection that   *)
(* has not sent join_room changes no state either.                         *)
C25_MarkScopedToSession ==
  [][C25_ForeignMarkChangesNothing /\ C25_NotFound /\ C25_NoRoomNoChange]_vars

(* ------------------------------ C26 ----------------------------------- *)
(* What the steps of a mark_number handler that settles nothing do: the    *)
(* arrival stores the submitted set in the row of the participant id and   *)
(* touches no other row or table; the lookup changes nothing; and with no  *)
(* win on the participant's card the handler ends there, nothing changed   *)
(* and nothing sent.                                                       *)
C26_MarkSteps ==
  \A m \in MarkReqs :
    /\ (mark[m].pc = "idle" /\ mark'[m].pc = "marked")
         => /\ DOMAIN participants' = DOMAIN participants
            /\ \A i \in DOMAIN participants :
                 participants'[i] =
                   IF participants[i].id = mark'[m].participantId
                   THEN [participants[i] EXCEPT !.markedNumbers = mark'[m].markedNumbers]
                   ELSE participants[i]
            /\ UNCHANGED <<balance, gameVars, ledger, inbox>>
    /\ (mark[m].pc = "marked" /\ mark'[m].pc = "gotParticipants")
         => durable' = durable /\ inbox' = inbox
    /\ (mark[m].pc = "gotParticipants" /\ mark'[m] # mark[m] /\ mark[m].player
          /\ ~SomeLineCovered(CardOf(mark[m].card), mark[m].markedNumbers))
         => /\ mark'[m].pc = "done" /\ mark'[m].res = "noWin"
            /\ durable' = durable /\ inbox' = inbox

(* C26: a mark_number whose set does not win on the participant's card     *)
(* leaves the participant's stored set equal to the submitted set (the     *)
(* last write wins) and changes no status, winner, prize pool, called      *)
(* numbers, balance or ledger row, and sends nothing.                      *)
C26_NonWinningMarkFrame == [][C26_MarkSteps]_vars

(* A handler has ended without a win after another handler for the same    *)
(* participant had stored a different set: the stored set is the one that  *)
(* did not win.                                                            *)
C26_Witness ==
  \E m, q \in MarkReqs :
    /\ mark[m].pc = "done" /\ mark[m].res = "noWin"
    /\ mark[q].pc = "done"
    /\ mark[m].participantId = mark[q].participantId
    /\ mark[m].markedNumbers # mark[q].markedNumbers
    /\ \E i \in DOMAIN participants :
         /\ participants[i].id = mark[m].participantId
         /\ participants[i].markedNumbers = mark[m].markedNumbers

(* ------------------------------ C27 ----------------------------------- *)
(* Every stored marked set holds only numbers of the participant's card. *)
C27_MarksOnCard ==
  \A i \in DOMAIN participants :
    participants[i].markedNumbers \subseteq CardValues(CardOf(participants[i].bingoCard))

(* While the game is not completed no step takes a number out of a stored  *)
(* marked set.                                                             *)
C27_MarksGrow ==
  \A i \in DOMAIN participants :
    status[participants[i].gameId] # "completed"
    => participants[i].markedNumbers \subseteq participants'[i].markedNumbers

(* C27: in every reachable state the stored marked set of a participant is *)
(* a subset of the non-free cell values of the participant's card, and     *)
(* until the game is completed every stored set is a superset of the one   *)
(* stored before.                                                          *)
C27_MarkedSetInvariant ==
  /\ []C27_MarksOnCard
  /\ [][C27_MarksGrow]_vars

(* ------------------------------ C28 ----------------------------------- *)
(* A step taken while game g is waiting does not complete it, set its      *)
(* winner or send its game_won.                                            *)
C28_NoSettlementWhileWaiting ==
  \A g \in Games :
    status[g] = "waiting"
    => /\ status'[g] # "completed"
       /\ winnerId'[g] = winnerId[g]
       /\ \A w \in WS :
            Len(inbox'[w]) > Len(inbox[w])
            => ~(inbox'[w][Len(inbox'[w])].type = "game_won"
                 /\ inbox'[w][Len(inbox'[w])].gameId = g)

(* C28: a game never goes from waiting straight to completed: a winning    *)
(* set submitted by the only participant of a game that is still waiting   *)
(* sets no winner, pays out no pool and sends no game_won.                 *)
C28_SettlementOnlyFromActive ==
  [][C28_NoSettlementWhileWaiting]_vars

(* ------------------------------ C29 ----------------------------------- *)
(* The places of the events of one type and game in what a connection has  *)
(* received.                                                               *)
EventsAt(w, type, g) ==
  {i \in DOMAIN inbox[w] : inbox[w][i].type = type /\ inbox[w][i].gameId = g}

(* No connection has received game_started twice for one game. *)
C29_StartedOnce ==
  \A w \in WS, g \in Games : Cardinality(EventsAt(w, "game_started", g)) <= 1

(* No connection has received the game_started of a game after one of its  *)
(* number_called.                                                          *)
C29_StartedBeforeCalled ==
  \A w \in WS, g \in Games :
    \A i \in EventsAt(w, "number_called", g), j \in EventsAt(w, "game_started", g) : j < i

(* C29: however joins and callbacks of the number caller interleave, the   *)
(* connections of a room receive game_started at most once for a game, and *)
(* never after a number_called of that game.                               *)
C29_GameStartedOnce == C29_StartedOnce /\ C29_StartedBeforeCalled

(* ------------------------------ C30 ----------------------------------- *)
(* C30: in every reachable state the winner of a game is the user of one   *)
(* of the game's participant rows, and so are the user of every game_win   *)
(* row of the game and the winnerId of every game_won sent for it.         *)
C30_WinnerIsParticipant ==
  /\ \A g \in Games : winnerId[g] # 0 => RowsOfUser(g, winnerId[g]) # {}
  /\ \A g \in Games : \A i \in GameWinRows(g) : RowsOfUser(g, ledger[i].userId) # {}
  /\ \A w \in WS : \A i \in DOMAIN inbox[w] :
       inbox[w][i].type = "game_won"
       => RowsOfUser(inbox[w][i].gameId, inbox[w][i].winnerId) # {}

====
